---- MODULE Spec2Model ----
(***************************************************************************)
(* Model of the MultiDirectionTooltip component (multi-direction-tooltip  *)
(* .tsx, found after line 433 of __tests__/accessibility.test.tsx) and of  *)
(* its types (unnamed/part_000).                                           *)
(*                                                                         *)
(* One trigger instance.  React state (isOpen, activePopup) and refs       *)
(* (timeoutRef, placementRef, positionRef) are variables; the browser's    *)
(* pending timers and pending animation-frame callbacks are collections.   *)
(* A state update, the render it causes and the effects that render runs   *)
(* are one step: the model commits a state change together with the        *)
(* cleanup and body of the resize effect (lines 665-713).                  *)
(***************************************************************************)
EXTENDS Integers, Sequences, FiniteSets, TLC

(***************************************************************************)
(* Bounds of the model.                                                    *)
(***************************************************************************)
\* handlers arm a timer only while at most this many timers are pending
MaxPending == 2
\* frame callbacks queued beyond this many replace the newest queued one
MaxRaf == 2

(***************************************************************************)
(* Types (unnamed/part_000).                                               *)
(***************************************************************************)
PopupPlacement == {"top", "left", "right", "bottom"}
PopupType == {"hover", "click"}

\* an optional numeric field that is absent (JS undefined)
Undefined == -1

\* `x || 0` on an optional number: undefined and 0 both give 0
OrZero(x) == IF x = Undefined \/ x = 0 THEN 0 ELSE x

\* config[placement]?.[type] when the entry is absent
NoSpec ==
  [def |-> FALSE, openDelay |-> Undefined, closeDelay |-> Undefined,
   enterable |-> FALSE, disableFlip |-> FALSE, offset |-> Undefined,
   fn |-> FALSE]

\* a BasePopupMetadata / HoverPopupMetadata object; fn: element is a function
PopupSpec(od, cd, ent, nf, off, f) ==
  [def |-> TRUE, openDelay |-> od, closeDelay |-> cd, enterable |-> ent,
   disableFlip |-> nf, offset |-> off, fn |-> f]

\* a MultiDirectionPopupConfig: its keys in insertion order and its cells
NoCells == [p \in PopupPlacement |-> [hover |-> NoSpec, click |-> NoSpec]]

\* basicHoverConfig of the demo page (unnamed/part_001 277-286)
basicHoverConfig ==
  [order |-> <<"top">>,
   cells |-> [NoCells EXCEPT !["top"].hover =
                PopupSpec(200, 100, FALSE, FALSE, 8, FALSE)]]

\* enterableConfig of the demo page (unnamed/part_001 323-339)
enterableConfig ==
  [order |-> <<"right">>,
   cells |-> [NoCells EXCEPT !["right"].hover =
                PopupSpec(100, 100, TRUE, FALSE, Undefined, FALSE)]]

\* richClickConfig of the demo page (unnamed/part_001 288-310)
richClickConfig ==
  [order |-> <<"bottom">>,
   cells |-> [NoCells EXCEPT !["bottom"].click =
                PopupSpec(Undefined, Undefined, FALSE, FALSE, 12, TRUE)]]

\* a configuration with hover and click entries on several placements; the
\* object of its last click entry carries the delay fields of a hover entry
mixedConfig ==
  [order |-> <<"top", "bottom">>,
   cells |-> [NoCells EXCEPT
                !["top"].hover = PopupSpec(Undefined, 100, FALSE, FALSE, Undefined, FALSE),
                !["top"].click = PopupSpec(Undefined, Undefined, FALSE, FALSE, Undefined, TRUE),
                !["bottom"].click = PopupSpec(300, 300, FALSE, TRUE, Undefined, FALSE)]]

\* per-tooltip disableFlip on a hover entry (interactive.test.tsx 1002-1010),
\* with a click entry on the same placement that allows flipping
noFlipHoverConfig ==
  [order |-> <<"top">>,
   cells |-> [NoCells EXCEPT
                !["top"].hover = PopupSpec(0, Undefined, FALSE, TRUE, Undefined, FALSE),
                !["top"].click = PopupSpec(Undefined, Undefined, FALSE, FALSE, Undefined, FALSE)]]

\* hover entries on two placements behind a placement with a click entry only
twoHoverConfig ==
  [order |-> <<"left", "top", "bottom">>,
   cells |-> [NoCells EXCEPT
                !["left"].click = PopupSpec(Undefined, Undefined, FALSE, FALSE, Undefined, TRUE),
                !["top"].hover = PopupSpec(100, 100, FALSE, FALSE, Undefined, FALSE),
                !["bottom"].hover = PopupSpec(100, 100, FALSE, FALSE, Undefined, FALSE)]]

Configs ==
  {basicHoverConfig, enterableConfig, richClickConfig, mixedConfig, noFlipHoverConfig}

\* config[placement]?.[type]
Lookup(cfg, p, t) == IF t = "hover" THEN cfg.cells[p].hover ELSE cfg.cells[p].click

(***************************************************************************)
(* Geometry.  Rectangles are in viewport coordinates; widths and heights   *)
(* are even so that the halving of the centring formulas is exact.         *)
(***************************************************************************)
ViewportWidth == 1024
ViewportHeight == 768
FallbackWidth == 200
FallbackHeight == 40
DefaultOffset == 8

Rect(t, l, w, h) ==
  [top |-> t, left |-> l, width |-> w, height |-> h, bottom |-> t + h, right |-> l + w]

\* trigger rectangles: near the top edge, where a top placement overflows and
\* a bottom one fits, and near the bottom edge, where it is the reverse
TriggerRects ==
  {Rect(10, 400, 100, 30), Rect(730, 400, 100, 30)}

\* measured sizes of the mounted overlay
PopupSizes == {[width |-> 100, height |-> 30]}

FallbackSize == [width |-> FallbackWidth, height |-> FallbackHeight]

\* the `positions` table with the overlay placed flush against the trigger
PositionsNoOffset(triggerRect, popupRect, offset) ==
  [p \in PopupPlacement |->
     CASE p = "top" ->
            [top |-> triggerRect.top - popupRect.height,
             left |-> triggerRect.left + (triggerRect.width - popupRect.width) \div 2]
       [] p = "bottom" ->
            [top |-> triggerRect.bottom,
             left |-> triggerRect.left + (triggerRect.width - popupRect.width) \div 2]
       [] p = "left" ->
            [top |-> triggerRect.top + (triggerRect.height - popupRect.height) \div 2,
             left |-> triggerRect.left - popupRect.width]
       [] p = "right" ->
            [top |-> triggerRect.top + (triggerRect.height - popupRect.height) \div 2,
             left |-> triggerRect.right]]

\* the `positions` table of calculatePosition
Positions(triggerRect, popupRect, offset) ==
  [p \in PopupPlacement |->
     CASE p = "top" ->
            [top |-> triggerRect.top - popupRect.height - offset,
             left |-> triggerRect.left + (triggerRect.width - popupRect.width) \div 2]
       [] p = "bottom" ->
            [top |-> triggerRect.bottom + offset,
             left |-> triggerRect.left + (triggerRect.width - popupRect.width) \div 2]
       [] p = "left" ->
            [top |-> triggerRect.top + (triggerRect.height - popupRect.height) \div 2,
             left |-> triggerRect.left - popupRect.width - offset]
       [] p = "right" ->
            [top |-> triggerRect.top + (triggerRect.height - popupRect.height) \div 2,
             left |-> triggerRect.right + offset]]

\* the boundary checks with the vertical tests ahead of the horizontal ones
FlipPlacementVerticalFirst(viewportPos, popupRect, placement, viewportRight, viewportBottom) ==
  IF viewportPos.top < 0 THEN "bottom"
  ELSE IF viewportPos.top + popupRect.height > viewportBottom THEN "top"
  ELSE IF viewportPos.left < 0 THEN "right"
  ELSE IF viewportPos.left + popupRect.width > viewportRight THEN "left"
  ELSE placement

\* the boundary checks keeping a margin of 16 pixels to every viewport edge
FlipPlacementPadded(viewportPos, popupRect, placement, viewportRight, viewportBottom) ==
  IF viewportPos.left < 16 THEN "right"
  ELSE IF viewportPos.left + popupRect.width > viewportRight - 16 THEN "left"
  ELSE IF viewportPos.top < 16 THEN "bottom"
  ELSE IF viewportPos.top + popupRect.height > viewportBottom - 16 THEN "top"
  ELSE placement

\* the boundary checks of calculatePosition, in the order of the if/else chain
FlipPlacement(viewportPos, popupRect, placement, viewportRight, viewportBottom) ==
  IF viewportPos.left < 0 THEN "right"
  ELSE IF viewportPos.left + popupRect.width > viewportRight THEN "left"
  ELSE IF viewportPos.top < 0 THEN "bottom"
  ELSE IF viewportPos.top + popupRect.height > viewportBottom THEN "top"
  ELSE placement

\* calculatePosition testing the flipped position again and flipping once more
ComputePositionFlipTwice(triggerRect, popupRect, placement, offset, vw, vh, noFlip) ==
  LET positions == Positions(triggerRect, popupRect, offset)
      once ==
        IF noFlip THEN placement
        ELSE FlipPlacement(positions[placement], popupRect, placement, vw, vh)
      finalPlacement ==
        IF noFlip THEN placement
        ELSE FlipPlacement(positions[once], popupRect, once, vw, vh)
  IN [position |-> positions[finalPlacement], placement |-> finalPlacement]

\* the body of calculatePosition once its rectangles and flags are read
ComputePosition(triggerRect, popupRect, placement, offset, vw, vh, noFlip) ==
  LET positions == Positions(triggerRect, popupRect, offset)
      finalPlacement ==
        IF noFlip THEN placement
        ELSE FlipPlacement(positions[placement], popupRect, placement, vw, vh)
  IN [position |-> positions[finalPlacement], placement |-> finalPlacement]


(***************************************************************************)
(* State.                                                                  *)
(***************************************************************************)
VARIABLES
  config,        \* prop: the configuration, fixed for the instance
  disableFlip,   \* prop: the global disableFlip flag
  triggerRect,   \* triggerRef.current.getBoundingClientRect()
  popupSize,     \* size the overlay measures once it is mounted
  isOpen,        \* useState(false)
  activePopup,   \* useState(null): placement, type, position
  timers,        \* the browser's pending timers created by this instance
  timeoutRef,    \* timeoutRef.current: id of the last timer armed, 0 for null
  placementRef,  \* placementRef.current
  positionRef,   \* positionRef.current
  stylePos,      \* top/left of the mounted overlay's style
  rafs,          \* pending requestAnimationFrame callbacks, oldest first
  pointer,       \* where the pointer is: "away", "trigger" or "popup"
  focus,         \* document.activeElement: "body", "trigger", "popup", "first", "last"
  calls,         \* callbacks invoked by the last step, in order
  ev,            \* the event or callback the last step processed
  intent,        \* history: the most recent open/close intent
  openedFor,     \* history: the entry whose open timer opened the overlay
  calc,          \* the geometry calculation applied by the Calculate step
  listeners,     \* document/window event types this instance listens to
  unmounted,     \* the instance has been removed from the tree
  rafStale,      \* history: the newest pending frame callback was requested
                 \* for an overlay that has since been closed or replaced
  theme,         \* ThemeProvider: useState<Theme>
  defaultTheme,  \* ThemeProvider: the defaultTheme prop
  stored,        \* localStorage[storageKey], "absent" when there is no item
  hasWindow,     \* typeof window !== 'undefined'
  getItemThrows, \* localStorage.getItem throws
  setItemThrows, \* localStorage.setItem throws
  warned,        \* the console.warn of the last ThemeProvider step
  escaped,       \* an exception left the last ThemeProvider step
  themeEv        \* the ThemeProvider step taken last

vars ==
  <<config, disableFlip, triggerRect, popupSize, isOpen, activePopup, timers,
    timeoutRef, placementRef, positionRef, stylePos, rafs, pointer, focus, calls,
    ev, intent, openedFor, calc, listeners, unmounted, rafStale, theme, defaultTheme,
    stored, hasWindow, getItemThrows, setItemThrows, warned, escaped, themeEv>>

themeVars ==
  <<theme, defaultTheme, stored, hasWindow, getItemThrows, setItemThrows, warned, escaped,
    themeEv>>

tooltipVars ==
  <<config, disableFlip, triggerRect, popupSize, isOpen, activePopup, timers,
    timeoutRef, placementRef, positionRef, stylePos, rafs, pointer, focus, calls,
    ev, intent, openedFor, calc, listeners, unmounted, rafStale>>

props == <<config, disableFlip, popupSize, calc>>

\* the listeners the three effects register (621, 658, 702-703)
AllListeners == {"mousedown", "keydown", "resize", "scroll"}

NoPos == [top |-> -9999, left |-> -9999]
NullPopup == [placement |-> "none", type |-> "none", position |-> NoPos]
NoPair == [placement |-> "none", type |-> "none"]
NoOver == [kind |-> "none", placement |-> "none", type |-> "none"]
NoIntent == [kind |-> "none", placement |-> "none", type |-> "none", over |-> NoOver]
NoCalc ==
  [placement |-> "none", triggerRect |-> Rect(0, 0, 0, 0), popupRect |-> FallbackSize,
   offset |-> 0, noFlip |-> FALSE, result |-> [position |-> NoPos, placement |-> "none"]]

\* the overlay element exists exactly while `isOpen && activePopup` renders it
Mounted(open, active) == open /\ active # NullPopup

\* a callback invocation: which callback, of which configuration entry
Call(name, p, t) == [cb |-> name, placement |-> p, type |-> t]

(***************************************************************************)
(* Timers.  A timer is the closure handed to window.setTimeout.            *)
(***************************************************************************)
TimerIds(tms) == {t.id : t \in tms}

\* window.clearTimeout(id): a fired or unknown id is ignored
ClearTimeout(tms, id) == {t \in tms : t.id # id}

\* the id window.setTimeout returns: the least one no pending timer holds.
\* Every caller stores the id in timeoutRef at once, so an id that only a
\* stale timeoutRef still holds can be handed out again.
NewTimerId(tms) ==
  CHOOSE i \in 1..(Cardinality(tms) + 1) :
    /\ i \notin TimerIds(tms)
    /\ \A j \in 1..(i - 1) : j \in TimerIds(tms)

\* handlers are processed while the pending timers fit the bound
CanArm == Cardinality(timers) <= MaxPending

\* calculatePosition measuring the overlay whether or not it is mounted
calculatePositionMeasuredOnly(placement, trig, mounted) ==
  LET tooltipConfig == Lookup(config, placement, "hover")
  IN ComputePosition(trig, popupSize, placement, DefaultOffset,
                     ViewportWidth, ViewportHeight,
                     tooltipConfig.disableFlip \/ disableFlip)

(***************************************************************************)
(* calculatePosition (483-555).  The callback is memoised on               *)
(* [defaultOffset, disableFlip], so it keeps the closure of the first      *)
(* render, in which activePopup is null: `activePopup?.type ?? HOVER` is   *)
(* always HOVER.  popupRef.current is read at call time.                   *)
(***************************************************************************)
calculatePositionIn(cfg, placement, trig, mounted) ==
  LET popupRect == IF mounted THEN popupSize ELSE FallbackSize
      tooltipConfig == Lookup(cfg, placement, "hover")
  IN ComputePosition(trig, popupRect, placement, DefaultOffset,
                     ViewportWidth, ViewportHeight,
                     tooltipConfig.disableFlip \/ disableFlip)

\* the instance's own calculatePosition: cfg is its config prop
calculatePosition(placement, trig, mounted) ==
  calculatePositionIn(config, placement, trig, mounted)

(***************************************************************************)
(* handleOpen (557-584) and handleClose (586-606) on the scheduler state   *)
(* s = [timers, ref, intent].  The intent they record names the pending    *)
(* timer, if any, that their clearTimeout cancelled.                       *)
(***************************************************************************)
Over(s) ==
  LET hit == {t \in s.timers : s.ref # 0 /\ t.id = s.ref}
  IN IF hit = {} THEN NoOver
     ELSE LET t == CHOOSE x \in hit : TRUE
          IN [kind |-> t.kind, placement |-> t.placement, type |-> t.type]

\* handleOpen without its clearTimeout
handleOpenNoClear(s, placement, type, trig, mounted) ==
  LET popupConfig == Lookup(config, placement, type) IN
  IF ~popupConfig.def THEN s
  ELSE
    LET delay == IF type = "hover" THEN OrZero(popupConfig.openDelay) ELSE 0
        pre == calculatePosition(placement, trig, mounted)
        id == NewTimerId(s.timers)
    IN [timers |-> s.timers \cup
                     {[id |-> id, kind |-> "open", placement |-> placement,
                       type |-> type, finalPlacement |-> pre.placement,
                       position |-> pre.position, delay |-> delay]},
        ref |-> id,
        intent |-> [kind |-> "open", placement |-> placement, type |-> type,
                    over |-> Over(s)]]

\* handleOpen clearing the pending timer before it looks the entry up
handleOpenClearFirst(s, placement, type, trig, mounted) ==
  LET popupConfig == Lookup(config, placement, type)
      cleared == IF s.ref # 0 THEN ClearTimeout(s.timers, s.ref) ELSE s.timers
  IN
  IF ~popupConfig.def THEN [s EXCEPT !.timers = cleared]
  ELSE
    LET delay == IF type = "hover" THEN OrZero(popupConfig.openDelay) ELSE 0
        pre == calculatePosition(placement, trig, mounted)
        id == NewTimerId(cleared)
    IN [timers |-> cleared \cup
                     {[id |-> id, kind |-> "open", placement |-> placement,
                       type |-> type, finalPlacement |-> pre.placement,
                       position |-> pre.position, delay |-> delay]},
        ref |-> id,
        intent |-> [kind |-> "open", placement |-> placement, type |-> type,
                    over |-> Over(s)]]

handleOpen(s, placement, type, trig, mounted) ==
  LET popupConfig == Lookup(config, placement, type) IN
  IF ~popupConfig.def THEN s
  ELSE
    LET delay == IF type = "hover" THEN OrZero(popupConfig.openDelay) ELSE 0
        cleared == IF s.ref # 0 THEN ClearTimeout(s.timers, s.ref) ELSE s.timers
        pre == calculatePosition(placement, trig, mounted)
        id == NewTimerId(cleared)
    IN [timers |-> cleared \cup
                     {[id |-> id, kind |-> "open", placement |-> placement,
                       type |-> type, finalPlacement |-> pre.placement,
                       position |-> pre.position, delay |-> delay]},
        ref |-> id,
        intent |-> [kind |-> "open", placement |-> placement, type |-> type,
                    over |-> Over(s)]]

\* handleClose reading closeDelay whatever the type of the active popup
handleCloseAnyDelay(s, active) ==
  IF active = NullPopup THEN s
  ELSE
    LET popupConfig == Lookup(config, active.placement, active.type)
        asked == [s EXCEPT !.intent = [kind |-> "close", placement |-> active.placement,
                                       type |-> active.type,
                                       over |-> IF popupConfig.def THEN Over(s) ELSE NoOver]]
    IN
    IF ~popupConfig.def THEN asked
    ELSE
      LET delay == OrZero(popupConfig.closeDelay)
          cleared == IF s.ref # 0 THEN ClearTimeout(s.timers, s.ref) ELSE s.timers
          id == NewTimerId(cleared)
      IN [asked EXCEPT
            !.timers = cleared \cup
                         {[id |-> id, kind |-> "close", placement |-> active.placement,
                           type |-> active.type, finalPlacement |-> active.placement,
                           position |-> NoPos, delay |-> delay]},
            !.ref = id]

handleClose(s, active) ==
  IF active = NullPopup THEN s
  ELSE
    LET popupConfig == Lookup(config, active.placement, active.type)
        asked == [s EXCEPT !.intent = [kind |-> "close", placement |-> active.placement,
                                       type |-> active.type,
                                       over |-> IF popupConfig.def THEN Over(s) ELSE NoOver]]
    IN
    IF ~popupConfig.def THEN asked
    ELSE
      LET delay == IF active.type = "hover" THEN OrZero(popupConfig.closeDelay) ELSE 0
          cleared == IF s.ref # 0 THEN ClearTimeout(s.timers, s.ref) ELSE s.timers
          id == NewTimerId(cleared)
      IN [asked EXCEPT
            !.timers = cleared \cup
                         {[id |-> id, kind |-> "close", placement |-> active.placement,
                           type |-> active.type, finalPlacement |-> active.placement,
                           position |-> NoPos, delay |-> delay]},
            !.ref = id]

\* the scheduler state of the current state
Sched == [timers |-> timers, ref |-> timeoutRef, intent |-> intent]

\* write a scheduler state back
SetSched(s) ==
  /\ timers' = s.timers
  /\ timeoutRef' = s.ref
  /\ intent' = s.intent


(***************************************************************************)
(* The resize effect (665-713).  It re-runs after every render in which    *)
(* isOpen or activePopup changed: first the cleanup of the previous run,   *)
(* which clears timeoutRef.current, then handleResize().  handleResize is  *)
(* also the window's resize and scroll listener.                           *)
(* r = [placementRef, positionRef, stylePos, rafs].                        *)
(***************************************************************************)
Enqueue(q, x) == IF Len(q) < MaxRaf THEN Append(q, x) ELSE [q EXCEPT ![MaxRaf] = x]

\* handleResize consulting only the global flag
handleResizeGlobalOnly(open, active, trig, r) ==
  IF ~open \/ active = NullPopup \/ ~Mounted(open, active) THEN r
  ELSE
    LET result == calculatePosition(active.placement, trig, TRUE)
        moved == r.positionRef = NoPos \/ r.positionRef # result.position
        flip == /\ ~disableFlip
                /\ r.placementRef # result.placement
    IN [placementRef |-> IF flip THEN result.placement ELSE r.placementRef,
        positionRef |-> IF moved THEN result.position ELSE r.positionRef,
        stylePos |-> IF moved THEN result.position ELSE r.stylePos,
        rafs |-> IF flip THEN Enqueue(r.rafs, result.placement) ELSE r.rafs]

handleResize(open, active, trig, r) ==
  IF ~open \/ active = NullPopup \/ ~Mounted(open, active) THEN r
  ELSE
    LET tooltipConfig == Lookup(config, active.placement, active.type)
        result == calculatePosition(active.placement, trig, TRUE)
        moved == r.positionRef = NoPos \/ r.positionRef # result.position
        flip == /\ ~tooltipConfig.disableFlip
                /\ ~disableFlip
                /\ r.placementRef # result.placement
    IN [placementRef |-> IF flip THEN result.placement ELSE r.placementRef,
        positionRef |-> IF moved THEN result.position ELSE r.positionRef,
        stylePos |-> IF moved THEN result.position ELSE r.stylePos,
        rafs |-> IF flip THEN Enqueue(r.rafs, result.placement) ELSE r.rafs]

\* the cleanup of the resize effect
EffectCleanup(tms, ref) == IF ref # 0 THEN ClearTimeout(tms, ref) ELSE tms

Refs == [placementRef |-> placementRef, positionRef |-> positionRef,
         stylePos |-> stylePos, rafs |-> rafs]

\* whether the newest pending frame callback belongs to an overlay other
\* than the active one, after a run of handleResize that produced r: a
\* callback requested by the run (690-693) belongs to the active overlay
StaleAfter(r, before) ==
  IF r.placementRef # placementRef THEN FALSE
  ELSE r.rafs # <<>> /\ before

SetRefs(r) ==
  /\ placementRef' = r.placementRef
  /\ positionRef' = r.positionRef
  /\ stylePos' = r.stylePos
  /\ rafs' = r.rafs

\* the style prop of the overlay after a render: set on mount, and on an
\* update only when the prop differs from the one of the previous render
RenderStyle(wasMounted, oldProp, newProp, style) ==
  IF ~wasMounted \/ oldProp # newProp THEN newProp ELSE style

(***************************************************************************)
(* ThemeProvider (theme-provider.tsx 47-106).  It shares nothing with the  *)
(* tooltip; its steps leave the tooltip's variables alone and vice versa.  *)
(***************************************************************************)
Theme == {"dark", "light", "system"}

\* what localStorage may hold under storageKey
StoredValues == Theme \cup {"absent", "", "blue"}

\* the lazy initializer of useState (53-66); getItem returns null for an
\* absent item
InitialTheme(def, item, win, getThrows) ==
  IF ~win THEN def
  ELSE IF getThrows THEN def
  ELSE IF item # "absent" /\ item # "" /\ item \in {"dark", "light", "system"} THEN item
  ELSE def

\* the console.warn of the initializer's catch block (62-64)
InitialWarning(win, getThrows) ==
  IF win /\ getThrows THEN "Failed to get theme from localStorage:" ELSE "none"

\* without a window the identifier localStorage is unbound and the access
\* throws a ReferenceError
SetItemFails == ~hasWindow \/ setItemThrows

\* a setTheme without the try/catch around setItem
setThemeNoCatch(newTheme) ==
  /\ themeEv' = [op |-> "setTheme", theme |-> newTheme]
  /\ IF SetItemFails
       THEN /\ escaped' = TRUE
            /\ UNCHANGED <<stored, theme>>
       ELSE /\ escaped' = FALSE
            /\ stored' = newTheme
            /\ theme' = newTheme
  /\ warned' = "none"
  /\ UNCHANGED <<defaultTheme, hasWindow, getItemThrows, setItemThrows, tooltipVars>>

\* value.setTheme (91-98)
setTheme(newTheme) ==
  /\ themeEv' = [op |-> "setTheme", theme |-> newTheme]
  /\ IF SetItemFails
       THEN /\ warned' = "Failed to save theme to localStorage:"
            /\ UNCHANGED stored
       ELSE /\ warned' = "none"
            /\ stored' = newTheme
  /\ theme' = newTheme
  /\ escaped' = FALSE
  /\ UNCHANGED <<defaultTheme, hasWindow, getItemThrows, setItemThrows, tooltipVars>>

\* the provider of a page whose storage works and holds no item, as the
\* tooltip's specifications have it
ThemeIdle ==
  /\ defaultTheme = "system"
  /\ stored = "absent"
  /\ hasWindow = TRUE
  /\ getItemThrows = FALSE
  /\ setItemThrows = FALSE
  /\ theme = InitialTheme(defaultTheme, stored, hasWindow, getItemThrows)
  /\ warned = InitialWarning(hasWindow, getItemThrows)
  /\ escaped = FALSE
  /\ themeEv = [op |-> "init", theme |-> "none"]

(***************************************************************************)
(* Init: the instance after its first render, overlay closed.              *)
(***************************************************************************)
Init ==
  /\ config \in Configs
  /\ disableFlip \in BOOLEAN
  /\ triggerRect \in TriggerRects
  /\ popupSize \in PopupSizes
  /\ isOpen = FALSE
  /\ activePopup = NullPopup
  /\ timers = {}
  /\ timeoutRef = 0
  /\ placementRef = "none"
  /\ positionRef = NoPos
  /\ stylePos = NoPos
  /\ rafs = <<>>
  /\ pointer = "away"
  /\ focus = "body"
  /\ calls = <<>>
  /\ ev = [op |-> "init", placement |-> "none", type |-> "none"]
  /\ intent = NoIntent
  /\ openedFor = NoPair
  /\ calc = NoCalc
  /\ listeners = AllListeners
  /\ unmounted = FALSE
  /\ rafStale = FALSE
  /\ ThemeIdle

Event(name) == [op |-> name, placement |-> "none", type |-> "none"]

(***************************************************************************)
(* Keyboard focus.  The overlay container is "popup"; the content of a     *)
(* click entry and of an enterable hover entry holds two focusable         *)
(* elements, "first" and "last"; other content holds none.                 *)
(***************************************************************************)
\* popupRef.current.querySelectorAll('button, [href], ...') on the overlay
Focusables(active) ==
  LET spec == Lookup(config, active.placement, active.type)
  IN IF spec.def /\ (active.type = "click" \/ spec.enterable)
       THEN <<"first", "last">> ELSE <<>>

\* document.activeElement after a render: an element that left the document
\* loses the focus to the body
FocusAfterRender(f, open, active) ==
  IF ~Mounted(open, active)
    THEN IF f \in {"popup", "first", "last"} THEN "body" ELSE f
    ELSE IF f \in {"first", "last"} /\ Focusables(active) = <<>> THEN "body" ELSE f

\* the keydown effect focusing the first focusable child of a click overlay
keydownEffectFirstChild(f, open, active) ==
  IF open /\ active.type = "click" /\ Mounted(open, active)
    THEN IF Focusables(active) # <<>> THEN Focusables(active)[1] ELSE "popup"
    ELSE f

\* the body of the keydown effect (654-656), run after a render in which
\* isOpen, handleClose or activePopup?.type changed; handleClose changes
\* with every new activePopup object
keydownEffect(f, open, active) ==
  IF open /\ active.type = "click" /\ Mounted(open, active) THEN "popup" ELSE f

\* the Tab case of handleKeyDown trapping the focus in hover overlays too
TabTrapAnyMode(f, shift, open, active) ==
  IF ~open \/ ~Mounted(open, active)
    THEN [focus |-> f, prevented |-> FALSE]
    ELSE
      LET els == Focusables(active) IN
      IF els = <<>> THEN [focus |-> f, prevented |-> FALSE]
      ELSE IF shift /\ f = els[1] THEN [focus |-> els[Len(els)], prevented |-> TRUE]
      ELSE IF ~shift /\ f = els[Len(els)] THEN [focus |-> els[1], prevented |-> TRUE]
      ELSE [focus |-> f, prevented |-> FALSE]

\* the Tab case of handleKeyDown (634-650): the focus it sets, and whether
\* it called event.preventDefault()
TabTrap(f, shift, open, active) ==
  IF ~open \/ active.type # "click" \/ ~Mounted(open, active)
    THEN [focus |-> f, prevented |-> FALSE]
    ELSE
      LET els == Focusables(active) IN
      IF els = <<>> THEN [focus |-> f, prevented |-> FALSE]
      ELSE IF shift /\ f = els[1] THEN [focus |-> els[Len(els)], prevented |-> TRUE]
      ELSE IF ~shift /\ f = els[Len(els)] THEN [focus |-> els[1], prevented |-> TRUE]
      ELSE [focus |-> f, prevented |-> FALSE]

\* the elements in document order, and those of them Tab stops at: the
\* trigger button, the overlay container while its tabIndex is 0 (852), and
\* the focusable elements of the content
DomOrder == <<"body", "trigger", "popup", "first", "last">>

Tabbable(x, open, active) ==
  \/ x \in {"body", "trigger"}
  \/ x = "popup" /\ Mounted(open, active) /\ active.type = "click"
  \/ /\ x \in {"first", "last"}
     /\ Mounted(open, active)
     /\ \E i \in 1..Len(Focusables(active)) : Focusables(active)[i] = x

\* the browser's default action for Tab and Shift+Tab
BrowserTab(f, shift, open, active) ==
  LET n == Len(DomOrder)
      at == CHOOSE i \in 1..n : DomOrder[i] = f
      step(k) == DomOrder[((at - 1 + (IF shift THEN n - k ELSE k)) % n) + 1]
      k0 == CHOOSE k \in 1..n :
              /\ Tabbable(step(k), open, active)
              /\ \A j \in 1..(k - 1) : ~Tabbable(step(j), open, active)
  IN step(k0)

(***************************************************************************)
(* Timer callbacks.                                                        *)
(***************************************************************************)
\* the callback armed by handleOpen (573-581), the render and the effect
OpenTimerFires(t) ==
  LET newActive == [placement |-> t.finalPlacement, type |-> t.type,
                    position |-> t.position]
      wasMounted == Mounted(isOpen, activePopup)
      sameOverlay == wasMounted /\ openedFor = [placement |-> t.placement, type |-> t.type]
      rendered == [Refs EXCEPT !.stylePos =
                     RenderStyle(wasMounted, activePopup.position, t.position, stylePos)]
  IN /\ isOpen' = TRUE
     /\ activePopup' = newActive
     /\ calls' = <<Call("onOpenCallback", t.placement, t.type)>>
     /\ openedFor' = [placement |-> t.placement, type |-> t.type]
     /\ timers' = EffectCleanup(timers \ {t}, timeoutRef)
     /\ SetRefs(handleResize(TRUE, newActive, triggerRect, rendered))
     /\ rafStale' = StaleAfter(handleResize(TRUE, newActive, triggerRect, rendered),
                               rafStale \/ ~sameOverlay)
     /\ focus' = keydownEffect(FocusAfterRender(focus, TRUE, newActive), TRUE, newActive)
     /\ UNCHANGED <<timeoutRef, intent, pointer>>

\* the close callback invoking onCloseCallback only for hover overlays
CloseTimerFiresHoverOnly(t) ==
  /\ isOpen' = FALSE
  /\ activePopup' = NullPopup
  /\ calls' = IF t.type = "hover"
               THEN <<Call("onCloseCallback", t.placement, t.type)>> ELSE <<>>
  /\ timers' = EffectCleanup(timers \ {t}, timeoutRef)
  /\ SetRefs(handleResize(FALSE, NullPopup, triggerRect, [Refs EXCEPT !.stylePos = NoPos]))
  /\ rafStale' = (rafs # <<>>)
  /\ intent' = NoIntent
  /\ openedFor' = NoPair
  /\ pointer' = IF pointer = "popup" THEN "away" ELSE pointer
  /\ focus' = keydownEffect(FocusAfterRender(focus, FALSE, NullPopup), FALSE, NullPopup)
  /\ UNCHANGED timeoutRef

\* the callback armed by handleClose (601-605), the render and the effect
CloseTimerFires(t) ==
  /\ isOpen' = FALSE
  /\ activePopup' = NullPopup
  /\ calls' = <<Call("onCloseCallback", t.placement, t.type)>>
  /\ timers' = EffectCleanup(timers \ {t}, timeoutRef)
  /\ SetRefs(handleResize(FALSE, NullPopup, triggerRect, [Refs EXCEPT !.stylePos = NoPos]))
  /\ rafStale' = (rafs # <<>>)
  /\ intent' = NoIntent
  /\ openedFor' = NoPair
  /\ pointer' = IF pointer = "popup" THEN "away" ELSE pointer
  /\ focus' = keydownEffect(FocusAfterRender(focus, FALSE, NullPopup), FALSE, NullPopup)
  /\ UNCHANGED timeoutRef

TimerFires ==
  \E t \in timers :
    /\ ev' = [op |-> "TimerFires", placement |-> t.placement, type |-> t.kind]
    /\ IF t.kind = "open" THEN OpenTimerFires(t) ELSE CloseTimerFires(t)
    /\ UNCHANGED <<themeVars, props, listeners, unmounted, triggerRect>>

\* a frame callback that writes the placement without looking at prev
FrameNoGuard ==
  /\ rafs # <<>>
  /\ ev' = Event("Frame")
  /\ calls' = <<>>
  /\ IF unmounted
       THEN /\ rafs' = <<>>
            /\ UNCHANGED <<activePopup, timers, placementRef, positionRef, stylePos, focus>>
       ELSE LET newActive == [activePopup EXCEPT !.placement = rafs[Len(rafs)]]
            IN /\ activePopup' = newActive
               /\ timers' = EffectCleanup(timers, timeoutRef)
               /\ SetRefs(handleResize(isOpen, newActive, triggerRect,
                                       [Refs EXCEPT !.rafs = <<>>]))
               /\ focus' = keydownEffect(FocusAfterRender(focus, isOpen, newActive),
                                         isOpen, newActive)
  /\ rafStale' = FALSE
  /\ UNCHANGED <<themeVars, props, listeners, unmounted, triggerRect, isOpen, openedFor, timeoutRef,
                 pointer, intent>>

(***************************************************************************)
(* The animation frame: every queued callback (694-698) applies its        *)
(* updater; an updater on a null state returns null and causes no render.  *)
(***************************************************************************)
Frame ==
  /\ rafs # <<>>
  /\ ev' = Event("Frame")
  /\ calls' = <<>>
  /\ IF activePopup = NullPopup \/ unmounted
       THEN /\ rafs' = <<>>
            /\ UNCHANGED <<activePopup, timers, placementRef, positionRef, stylePos, focus>>
       ELSE LET newActive == [activePopup EXCEPT !.placement = rafs[Len(rafs)]]
            IN /\ activePopup' = newActive
               /\ timers' = EffectCleanup(timers, timeoutRef)
               /\ SetRefs(handleResize(isOpen, newActive, triggerRect,
                                       [Refs EXCEPT !.rafs = <<>>]))
               /\ focus' = keydownEffect(FocusAfterRender(focus, isOpen, newActive),
                                         isOpen, newActive)
  /\ rafStale' = FALSE
  /\ UNCHANGED <<themeVars, props, listeners, unmounted, triggerRect, isOpen, openedFor, timeoutRef,
                 pointer, intent>>

(***************************************************************************)
(* What a render puts into the DOM (718-722, 780-862).  An attribute React *)
(* omits is "absent".                                                      *)
(***************************************************************************)
\* tooltipId.current (464)
tooltipId == "tooltip-id"

\* trigger attributes that always reference the overlay
triggerPropsAlwaysDescribed(open) ==
  [ariaDescribedby |-> tooltipId,
   ariaExpanded |-> open,
   ariaHaspopup |-> TRUE]

\* triggerProps (718-722)
triggerProps(open) ==
  [ariaDescribedby |-> IF open THEN tooltipId ELSE "absent",
   ariaExpanded |-> open,
   ariaHaspopup |-> TRUE]

\* overlay attributes that announce every overlay politely
overlayPropsPolite(open, active) ==
  IF ~Mounted(open, active) THEN [rendered |-> FALSE]
  ELSE [rendered |-> TRUE,
        id |-> tooltipId,
        role |-> "tooltip",
        ariaLive |-> "polite",
        ariaModal |-> active.type = "click",
        ariaHidden |-> ~open,
        tabIndex |-> IF active.type = "click" THEN 0 ELSE -1,
        dataPlacement |-> active.placement]

\* the overlay element and its attributes (780, 818, 847-852)
overlayProps(open, active) ==
  IF ~Mounted(open, active) THEN [rendered |-> FALSE]
  ELSE [rendered |-> TRUE,
        id |-> tooltipId,
        role |-> "tooltip",
        ariaLive |-> IF active.type = "hover" THEN "polite" ELSE "assertive",
        ariaModal |-> active.type = "click",
        ariaHidden |-> ~open,
        tabIndex |-> IF active.type = "click" THEN 0 ELSE -1,
        dataPlacement |-> active.placement]

\* the overlay's children (854-862): the element of the active pair's
\* entry, called with {closePopup: handleClose} when it is a function
overlayContent(open, active) ==
  IF ~Mounted(open, active)
    THEN [rendered |-> FALSE, invoked |-> FALSE, closePopup |-> "none"]
    ELSE LET spec == Lookup(config, active.placement, active.type)
         IN [rendered |-> spec.def,
             invoked |-> spec.fn,
             closePopup |-> IF spec.fn THEN "handleClose" ELSE "none"]

\* closePopup closing the overlay at once instead of going through handleClose
ClosePopupImmediate ==
  /\ ~unmounted
  /\ Mounted(isOpen, activePopup)
  /\ Lookup(config, activePopup.placement, activePopup.type).fn
  /\ CanArm
  /\ ev' = Event("ClosePopup")
  /\ calls' = <<>>
  /\ isOpen' = FALSE
  /\ activePopup' = NullPopup
  /\ stylePos' = NoPos
  /\ UNCHANGED <<themeVars, props, rafStale, listeners, unmounted, focus, triggerRect, openedFor, timers,
                 timeoutRef, intent, placementRef, positionRef, rafs, pointer>>

\* an unmount whose cleanup leaves the pending timer alone
UnmountNoClear ==
  /\ ~unmounted
  /\ unmounted' = TRUE
  /\ listeners' = ((listeners \ {"mousedown"}) \ {"keydown"}) \ {"resize", "scroll"}
  /\ UNCHANGED timers
  /\ ev' = [op |-> "Unmount", placement |-> "none",
            type |-> IF timers # {} THEN "pending" ELSE "idle"]
  /\ calls' = <<>>
  /\ stylePos' = NoPos
  /\ pointer' = "away"
  /\ focus' = "body"
  /\ UNCHANGED <<themeVars, props, rafStale, triggerRect, isOpen, activePopup, timeoutRef,
                 placementRef, positionRef, rafs, intent, openedFor>>

\* unmount: React runs the cleanup of the three effects (622, 659, 706-712),
\* which detach the listeners and clear the timer timeoutRef names, and
\* removes the trigger and the overlay from the document.  No state setter
\* runs, so the state and the refs stay as they were; animation-frame
\* callbacks already requested stay queued.  ev.type tells whether a timer
\* was pending
Unmount ==
  /\ ~unmounted
  /\ unmounted' = TRUE
  /\ listeners' = ((listeners \ {"mousedown"}) \ {"keydown"}) \ {"resize", "scroll"}
  /\ timers' = EffectCleanup(timers, timeoutRef)
  /\ ev' = [op |-> "Unmount", placement |-> "none",
            type |-> IF timers # {} THEN "pending" ELSE "idle"]
  /\ calls' = <<>>
  /\ stylePos' = NoPos
  /\ pointer' = "away"
  /\ focus' = "body"
  /\ UNCHANGED <<themeVars, props, rafStale, triggerRect, isOpen, activePopup, timeoutRef,
                 placementRef, positionRef, rafs, intent, openedFor>>

\* a resize or scroll event: the trigger moves, the listener runs
ResizeListener(rect) ==
  /\ {"resize", "scroll"} \cap listeners # {}
  /\ triggerRect' = rect
  /\ ev' = Event("ScrollOrResize")
  /\ calls' = <<>>
  /\ SetRefs(handleResize(isOpen, activePopup, rect, Refs))
  /\ rafStale' = StaleAfter(handleResize(isOpen, activePopup, rect, Refs), rafStale)
  /\ UNCHANGED <<themeVars, props, listeners, unmounted, focus, isOpen, activePopup, openedFor, timers,
                 timeoutRef, pointer, intent>>

ScrollOrResize ==
  \E rect \in TriggerRects :
    /\ rect # triggerRect
    /\ ResizeListener(rect)


(***************************************************************************)
(* Trigger handlers (718-761).                                             *)
(***************************************************************************)
\* Object.entries(config).find(([_, types]) => types[HOVER]): its placement
FirstHover(cfg) ==
  LET found == {i \in 1..Len(cfg.order) : cfg.cells[cfg.order[i]].hover.def}
  IN IF found = {} THEN "none"
     ELSE cfg.order[CHOOSE i \in found : \A j \in found : i <= j]

\* Object.entries(config).forEach: handleOpen for every entry with a click spec
RECURSIVE OpenEachClick(_, _, _, _)
OpenEachClick(s, order, trig, mounted) ==
  IF order = <<>> THEN s
  ELSE OpenEachClick(
         IF Lookup(config, Head(order), "click").def
           THEN handleOpen(s, Head(order), "click", trig, mounted)
           ELSE s,
         Tail(order), trig, mounted)

\* onMouseEnter opening at once when the hover entry's open delay is 0
TriggerMouseEnterSyncZero ==
  /\ ~unmounted
  /\ pointer = "away"
  /\ CanArm
  /\ pointer' = "trigger"
  /\ ev' = [op |-> "TriggerMouseEnter", placement |-> FirstHover(config), type |-> "hover"]
  /\ calls' = <<Call("triggerCallbacks.onMouseEnter", "none", "none")>>
  /\ IF FirstHover(config) = "none"
       THEN UNCHANGED <<timers, timeoutRef, intent, isOpen, activePopup>>
       ELSE IF OrZero(Lookup(config, FirstHover(config), "hover").openDelay) # 0
         THEN /\ SetSched(handleOpen(Sched, FirstHover(config), "hover", triggerRect,
                                     Mounted(isOpen, activePopup)))
              /\ UNCHANGED <<isOpen, activePopup>>
         ELSE /\ isOpen' = TRUE
              /\ activePopup' =
                   [placement |-> calculatePosition(FirstHover(config), triggerRect,
                                                    Mounted(isOpen, activePopup)).placement,
                    type |-> "hover",
                    position |-> calculatePosition(FirstHover(config), triggerRect,
                                                   Mounted(isOpen, activePopup)).position]
              /\ UNCHANGED <<timers, timeoutRef, intent>>
  /\ UNCHANGED <<themeVars, props, rafStale, listeners, unmounted, focus, triggerRect, openedFor, placementRef, positionRef, stylePos, rafs>>

TriggerMouseEnter ==
  /\ ~unmounted
  /\ pointer = "away"
  /\ CanArm
  /\ pointer' = "trigger"
  /\ ev' = [op |-> "TriggerMouseEnter", placement |-> FirstHover(config), type |-> "hover"]
  /\ calls' = <<Call("triggerCallbacks.onMouseEnter", "none", "none")>>
  /\ IF FirstHover(config) # "none"
       THEN SetSched(handleOpen(Sched, FirstHover(config), "hover", triggerRect,
                                Mounted(isOpen, activePopup)))
       ELSE UNCHANGED <<timers, timeoutRef, intent>>
  /\ UNCHANGED <<themeVars, props, rafStale, listeners, unmounted, focus, triggerRect, isOpen, activePopup, openedFor, placementRef, positionRef,
                 stylePos, rafs>>

\* onMouseLeave closing every hover overlay, enterable or not
TriggerMouseLeaveAlways ==
  /\ ~unmounted
  /\ pointer = "trigger"
  /\ CanArm
  /\ pointer' = "away"
  /\ ev' = Event("TriggerMouseLeave")
  /\ calls' = <<Call("triggerCallbacks.onMouseLeave", "none", "none")>>
  /\ IF activePopup.type = "hover"
       THEN SetSched(handleClose(Sched, activePopup))
       ELSE UNCHANGED <<timers, timeoutRef, intent>>
  /\ UNCHANGED <<themeVars, props, rafStale, listeners, unmounted, focus, triggerRect, isOpen, activePopup, openedFor, placementRef, positionRef,
                 stylePos, rafs>>

TriggerMouseLeave ==
  /\ ~unmounted
  /\ pointer = "trigger"
  /\ CanArm
  /\ pointer' = "away"
  /\ ev' = Event("TriggerMouseLeave")
  /\ calls' = <<Call("triggerCallbacks.onMouseLeave", "none", "none")>>
  /\ IF /\ activePopup.type = "hover"
        /\ ~Lookup(config, activePopup.placement, "hover").enterable
       THEN SetSched(handleClose(Sched, activePopup))
       ELSE UNCHANGED <<timers, timeoutRef, intent>>
  /\ UNCHANGED <<themeVars, props, rafStale, listeners, unmounted, focus, triggerRect, isOpen, activePopup, openedFor, placementRef, positionRef,
                 stylePos, rafs>>

\* onClick, and onKeyDown with Enter or Space, which runs the same body
TriggerClick ==
  /\ ~unmounted
  /\ CanArm
  /\ ev' = Event("TriggerClick")
  /\ calls' = <<Call("triggerCallbacks.onClick", "none", "none")>>
  /\ SetSched(OpenEachClick(Sched, config.order, triggerRect, Mounted(isOpen, activePopup)))
  /\ UNCHANGED <<themeVars, props, rafStale, listeners, unmounted, focus, triggerRect, isOpen, activePopup, openedFor, placementRef, positionRef,
                 stylePos, rafs, pointer>>

(***************************************************************************)
(* Overlay handlers (825-846) and the content's closePopup (854-862).      *)
(***************************************************************************)
\* the overlay's onMouseEnter without its clearTimeout
PopupMouseEnterNoClear ==
  /\ ~unmounted
  /\ Mounted(isOpen, activePopup)
  /\ pointer = "away"
  /\ pointer' = "popup"
  /\ ev' = Event("PopupMouseEnter")
  /\ LET popupConfig == Lookup(config, activePopup.placement, activePopup.type) IN
     IF activePopup.type = "hover" /\ popupConfig.enterable
       THEN /\ calls' = <<Call("onMouseEnter", activePopup.placement, activePopup.type)>>
            /\ intent' = [kind |-> "keep", placement |-> activePopup.placement,
                          type |-> activePopup.type, over |-> NoOver]
            /\ UNCHANGED timers
       ELSE /\ calls' = <<>>
            /\ UNCHANGED <<timers, intent>>
  /\ UNCHANGED <<themeVars, props, rafStale, listeners, unmounted, focus, triggerRect, isOpen, activePopup, openedFor, timeoutRef, placementRef,
                 positionRef, stylePos, rafs>>

PopupMouseEnter ==
  /\ ~unmounted
  /\ Mounted(isOpen, activePopup)
  /\ pointer = "away"
  /\ pointer' = "popup"
  /\ ev' = Event("PopupMouseEnter")
  /\ LET popupConfig == Lookup(config, activePopup.placement, activePopup.type) IN
     IF activePopup.type = "hover" /\ popupConfig.enterable
       THEN /\ timers' = EffectCleanup(timers, timeoutRef)
            /\ calls' = <<Call("onMouseEnter", activePopup.placement, activePopup.type)>>
            /\ intent' = [kind |-> "keep", placement |-> activePopup.placement,
                          type |-> activePopup.type, over |-> Over(Sched)]
       ELSE /\ calls' = <<>>
            /\ UNCHANGED <<timers, intent>>
  /\ UNCHANGED <<themeVars, props, rafStale, listeners, unmounted, focus, triggerRect, isOpen, activePopup, openedFor, timeoutRef, placementRef,
                 positionRef, stylePos, rafs>>

PopupMouseLeave ==
  /\ ~unmounted
  /\ Mounted(isOpen, activePopup)
  /\ pointer = "popup"
  /\ CanArm
  /\ pointer' = "away"
  /\ ev' = Event("PopupMouseLeave")
  /\ LET popupConfig == Lookup(config, activePopup.placement, activePopup.type) IN
     IF activePopup.type = "hover" /\ popupConfig.enterable
       THEN /\ SetSched(handleClose(Sched, activePopup))
            /\ calls' = <<Call("onMouseLeave", activePopup.placement, activePopup.type)>>
       ELSE /\ calls' = <<>>
            /\ UNCHANGED <<timers, timeoutRef, intent>>
  /\ UNCHANGED <<themeVars, props, rafStale, listeners, unmounted, focus, triggerRect, isOpen, activePopup, openedFor, placementRef, positionRef,
                 stylePos, rafs>>

\* function content is rendered while the overlay is mounted and calls closePopup
ClosePopup ==
  /\ ~unmounted
  /\ Mounted(isOpen, activePopup)
  /\ Lookup(config, activePopup.placement, activePopup.type).fn
  /\ CanArm
  /\ ev' = Event("ClosePopup")
  /\ calls' = <<>>
  /\ SetSched(handleClose(Sched, activePopup))
  /\ UNCHANGED <<themeVars, props, rafStale, listeners, unmounted, focus, triggerRect, isOpen, activePopup, openedFor, placementRef, positionRef,
                 stylePos, rafs, pointer>>

(***************************************************************************)
(* Document listeners (608-660).                                           *)
(***************************************************************************)
\* handleClickOutside without its test of the active popup's type
DocMouseDownAnyMode ==
  \E target \in {"outside", "popup", "trigger"} :
    /\ "mousedown" \in listeners
    /\ target = "popup" => Mounted(isOpen, activePopup)
    /\ CanArm
    /\ ev' = [op |-> "DocMouseDown", placement |-> "none", type |-> target]
    /\ calls' = <<>>
    /\ IF Mounted(isOpen, activePopup) /\ target = "outside"
         THEN SetSched(handleClose(Sched, activePopup))
         ELSE UNCHANGED <<timers, timeoutRef, intent>>
    /\ UNCHANGED <<themeVars, props, rafStale, listeners, unmounted, focus, triggerRect, isOpen, activePopup, openedFor, placementRef, positionRef,
                   stylePos, rafs, pointer>>

\* handleClickOutside: target is "outside", "popup" or "trigger"
DocMouseDown ==
  \E target \in {"outside", "popup", "trigger"} :
    /\ "mousedown" \in listeners
    /\ target = "popup" => Mounted(isOpen, activePopup)
    /\ CanArm
    /\ ev' = [op |-> "DocMouseDown", placement |-> "none", type |-> target]
    /\ calls' = <<>>
    /\ IF /\ activePopup.type = "click"
          /\ Mounted(isOpen, activePopup)
          /\ target = "outside"
         THEN SetSched(handleClose(Sched, activePopup))
         ELSE UNCHANGED <<timers, timeoutRef, intent>>
    /\ UNCHANGED <<themeVars, props, rafStale, listeners, unmounted, focus, triggerRect, isOpen, activePopup, openedFor, placementRef, positionRef,
                   stylePos, rafs, pointer>>

\* handleKeyDown, case 'Escape', without the focus() call on the trigger
KeyEscapeNoFocus ==
  /\ "keydown" \in listeners
  /\ CanArm
  /\ ev' = Event("KeyEscape")
  /\ calls' = <<>>
  /\ IF isOpen
       THEN SetSched(handleClose(Sched, activePopup))
       ELSE UNCHANGED <<timers, timeoutRef, intent>>
  /\ UNCHANGED <<themeVars, props, rafStale, listeners, unmounted, focus, triggerRect, isOpen, activePopup, openedFor, placementRef,
                 positionRef, stylePos, rafs, pointer>>

\* handleKeyDown, case 'Escape'
KeyEscape ==
  /\ "keydown" \in listeners
  /\ CanArm
  /\ ev' = Event("KeyEscape")
  /\ calls' = <<>>
  /\ IF isOpen
       THEN /\ SetSched(handleClose(Sched, activePopup))
            /\ focus' = "trigger"
       ELSE UNCHANGED <<timers, timeoutRef, intent, focus>>
  /\ UNCHANGED <<themeVars, props, rafStale, listeners, unmounted, triggerRect, isOpen, activePopup, openedFor, placementRef, positionRef,
                 stylePos, rafs, pointer>>

\* handleKeyDown, case 'Tab', followed by the browser's default action
\* unless the handler prevented it
KeyTab ==
  \E shift \in BOOLEAN :
    LET r == TabTrap(focus, shift, isOpen, activePopup) IN
    /\ "keydown" \in listeners
    /\ ev' = [op |-> "KeyTab", placement |-> "none",
              type |-> IF shift THEN "shift" ELSE "plain"]
    /\ calls' = IF r.prevented THEN <<Call("preventDefault", "none", "none")>> ELSE <<>>
    /\ focus' = IF r.prevented THEN r.focus
                ELSE BrowserTab(focus, shift, isOpen, activePopup)
    /\ UNCHANGED <<themeVars, props, rafStale, listeners, unmounted, triggerRect, isOpen, activePopup, openedFor, timers, timeoutRef,
                   intent, placementRef, positionRef, stylePos, rafs, pointer>>

(***************************************************************************)
(* Specification of the mounted instance.                                  *)
(***************************************************************************)
Next ==
  \/ TriggerMouseEnter
  \/ TriggerMouseLeave
  \/ TriggerClick
  \/ PopupMouseEnter
  \/ PopupMouseLeave
  \/ ClosePopup
  \/ DocMouseDown
  \/ KeyEscape
  \/ TimerFires
  \/ Frame
  \/ ScrollOrResize
  \/ Unmount

Spec == Init /\ [][Next]_vars

(***************************************************************************)
(* Instances whose configuration gives the router of the trigger's         *)
(* pointer-enter a choice: several hover entries, or none.                 *)
(***************************************************************************)
RouterConfigs == {twoHoverConfig, richClickConfig}

InitRouter ==
  /\ config \in RouterConfigs
  /\ disableFlip = FALSE
  /\ triggerRect \in TriggerRects
  /\ popupSize \in PopupSizes
  /\ isOpen = FALSE
  /\ activePopup = NullPopup
  /\ timers = {}
  /\ timeoutRef = 0
  /\ placementRef = "none"
  /\ positionRef = NoPos
  /\ stylePos = NoPos
  /\ rafs = <<>>
  /\ pointer = "away"
  /\ focus = "body"
  /\ calls = <<>>
  /\ ev = [op |-> "init", placement |-> "none", type |-> "none"]
  /\ intent = NoIntent
  /\ openedFor = NoPair
  /\ calc = NoCalc
  /\ listeners = AllListeners
  /\ unmounted = FALSE
  /\ rafStale = FALSE
  /\ ThemeIdle

SpecRouter == InitRouter /\ [][Next]_vars

(***************************************************************************)
(* The instance driven from the keyboard: Tab and Shift+Tab move the focus *)
(* while the pointer rests on the trigger or clicks it.                    *)
(***************************************************************************)
NextKeys ==
  \/ TriggerMouseEnter
  \/ TriggerClick
  \/ KeyEscape
  \/ KeyTab
  \/ TimerFires
  \/ Frame

SpecKeys == Init /\ [][NextKeys]_vars

(***************************************************************************)
(* The state machine driven by its two intents alone: handleOpen called    *)
(* for any (placement, type) pair, configured or not, and handleClose.     *)
(***************************************************************************)
OpenIntent ==
  \E p \in PopupPlacement, t \in PopupType :
    /\ ~unmounted
    /\ CanArm
    /\ ev' = [op |-> "OpenIntent", placement |-> p, type |-> t]
    /\ calls' = <<>>
    /\ SetSched(handleOpen(Sched, p, t, triggerRect, Mounted(isOpen, activePopup)))
    /\ UNCHANGED <<themeVars, props, rafStale, listeners, unmounted, focus, triggerRect, isOpen, activePopup, openedFor, placementRef, positionRef,
                   stylePos, rafs, pointer>>

CloseIntent ==
  /\ ~unmounted
  /\ CanArm
  /\ ev' = Event("CloseIntent")
  /\ calls' = <<>>
  /\ SetSched(handleClose(Sched, activePopup))
  /\ UNCHANGED <<themeVars, props, rafStale, listeners, unmounted, focus, triggerRect, isOpen, activePopup, openedFor, placementRef, positionRef,
                 stylePos, rafs, pointer>>

NextIntent ==
  \/ OpenIntent
  \/ CloseIntent
  \/ TimerFires
  \/ Frame

SpecIntent == Init /\ [][NextIntent]_vars

(***************************************************************************)
(* The geometry calculation on its own: every step applies it to one       *)
(* combination of trigger rectangle, overlay size, placement, offset and   *)
(* flip flag.                                                              *)
(***************************************************************************)
GeomTops == {-20, 10, 300, 730}
GeomLefts == {-60, 10, 400, 920}
GeomSizes == {FallbackSize, [width |-> 100, height |-> 30]}
GeomOffsets == {0, DefaultOffset}

InitGeom ==
  /\ Init
  /\ config = basicHoverConfig
  /\ disableFlip = FALSE
  /\ triggerRect = Rect(10, 400, 100, 30)

Calculate ==
  \E t \in GeomTops, l \in GeomLefts, size \in GeomSizes, p \in PopupPlacement,
     offset \in GeomOffsets, noFlip \in BOOLEAN :
    /\ calc' = [placement |-> p, triggerRect |-> Rect(t, l, 100, 30), popupRect |-> size,
                offset |-> offset, noFlip |-> noFlip,
                result |-> ComputePosition(Rect(t, l, 100, 30), size, p, offset,
                                           ViewportWidth, ViewportHeight, noFlip)]
    /\ UNCHANGED <<themeVars, rafStale, listeners, unmounted, config, disableFlip, popupSize, triggerRect, isOpen,
                   activePopup,
                   timers, timeoutRef, placementRef, positionRef, stylePos, rafs,
                   pointer, focus, calls, ev, intent, openedFor>>

NextGeom == Calculate

SpecGeom == InitGeom /\ [][NextGeom]_vars


(***************************************************************************)
(* Properties.                                                             *)
(***************************************************************************)
OpenTimers == {t \in timers : t.kind = "open"}
CloseTimers == {t \in timers : t.kind = "close"}

\* the invocations of callback `name` among the callbacks of a step
CallsOf(cs, name) == SelectSeq(cs, LAMBDA c : c.cb = name)

\* C1: once a close intent has been issued on an open overlay, and no open
\* intent or overlay pointer-enter has followed, the close stays scheduled
\* until its timer fires and the overlay is Closed.
C1_CloseIntentResolves ==
  (intent.kind = "close" /\ isOpen) => CloseTimers # {}

\* C2: a hover open timer armed by a pointer-enter does not outlive the
\* pointer's stay on the trigger: once the pointer has left, no hover open
\* is pending that would open the closed overlay.
C2_NoStaleHoverOpen ==
  \A t \in OpenTimers : (t.type = "hover" /\ ~isOpen) => pointer = "trigger"

\* C3: at most one timer is pending, and it is the one timeoutRef holds.
C3_AtMostOneTimer ==
  /\ Cardinality(timers) <= 1
  /\ \A t \in timers : t.id = timeoutRef

\* a click that fanned out over two click entries: the first entry's timer
\* was armed and cancelled, the second entry's is the only one pending
C3_Witness ==
  /\ ev.op = "TriggerClick"
  /\ config = mixedConfig
  /\ intent.over.kind = "open"
  /\ intent.over.placement = "top"
  /\ \E t \in timers : t.placement = "bottom"

\* C4: a close that an open intent superseded never runs: while the most
\* recent intent is an open no close timer is pending, and the overlay is
\* closed and onCloseCallback invoked only by a step that follows a close
\* intent.
C4_SupersededCloseNeverRuns ==
  [][/\ intent'.kind = "open" => \A t \in timers' : t.kind # "close"
     /\ ((isOpen /\ ~isOpen') \/ CallsOf(calls', "onCloseCallback") # <<>>)
          => intent.kind = "close"]_vars

\* an open hover overlay whose scheduled close was cancelled by a new open
\* intent, which has then fired
C4_Witness ==
  /\ isOpen
  /\ activePopup.type = "hover"
  /\ intent.kind = "open"
  /\ intent.over.kind = "close"
  /\ ev.op = "TimerFires"
  /\ ev.type = "open"

\* C5: the onOpenCallback of an entry is invoked exactly once in a step by
\* which the overlay becomes open for that entry, and in no other step: not
\* while the overlay is already open for it.
C5_OpenCallbackOncePerOpening ==
  [][\A p \in PopupPlacement, t \in PopupType :
       LET entry == [placement |-> p, type |-> t]
           invoked == SelectSeq(calls', LAMBDA c : c = Call("onOpenCallback", p, t))
       IN Len(invoked) =
            IF ~(isOpen /\ openedFor = entry) /\ (isOpen' /\ openedFor' = entry)
              THEN 1 ELSE 0]_vars

\* C6: the step that takes the overlay from Open to Closed is a timer step
\* that clears the active popup and invokes the onCloseCallback of the active
\* entry once; no other step invokes an onCloseCallback.
C6_CloseCallbackOncePerClosing ==
  [][IF isOpen /\ ~isOpen'
       THEN /\ CallsOf(calls', "onCloseCallback") =
                 <<Call("onCloseCallback", activePopup.placement, activePopup.type)>>
            /\ activePopup' = NullPopup
            /\ ev'.op = "TimerFires"
       ELSE CallsOf(calls', "onCloseCallback") = <<>>]_vars

\* a click overlay that has just been closed by its close timer
C6_Witness ==
  /\ ~isOpen
  /\ activePopup = NullPopup
  /\ ev.op = "TimerFires"
  /\ ev.type = "close"
  /\ calls = <<Call("onCloseCallback", ev.placement, "click")>>

C8_MissingSpecNoOp ==
  [][(ev'.op = "OpenIntent" /\ ~Lookup(config, ev'.placement, ev'.type).def) =>
        /\ UNCHANGED <<isOpen, activePopup, timers, timeoutRef, intent, rafs,
                       placementRef, positionRef, stylePos>>
        /\ calls' = <<>>]_vars

\* an open intent for an unconfigured pair, processed while an overlay is
\* open and its close is pending
C8_Witness ==
  /\ ev.op = "OpenIntent"
  /\ ~Lookup(config, ev.placement, ev.type).def
  /\ isOpen
  /\ CloseTimers # {}

\* C9: when flip is disabled globally or by the entry being opened, the open
\* intent resolves to the requested placement at its base position.
C9_DisableFlipKeepsPlacement ==
  [][\A t \in timers' \ timers :
       (t.kind = "open" /\ (disableFlip \/ Lookup(config, t.placement, t.type).disableFlip)) =>
          /\ t.finalPlacement = t.placement
          /\ t.position =
               Positions(triggerRect,
                         IF Mounted(isOpen, activePopup) THEN popupSize ELSE FallbackSize,
                         DefaultOffset)[t.placement]]_vars

\* C10: with flip allowed the resolved placement follows the first matching
\* test on the base position of the requested placement: left < 0 gives
\* right, else left + width > viewportWidth gives left, else top < 0 gives
\* bottom, else top + height > viewportHeight gives top, else no flip.
BaseOf(c) ==
  LET tr == c.triggerRect
      pr == c.popupRect
      centredLeft == tr.left + (tr.width - pr.width) \div 2
      centredTop == tr.top + (tr.height - pr.height) \div 2
  IN CASE c.placement = "top" -> [top |-> tr.top - pr.height - c.offset, left |-> centredLeft]
       [] c.placement = "bottom" -> [top |-> tr.bottom + c.offset, left |-> centredLeft]
       [] c.placement = "left" -> [top |-> centredTop, left |-> tr.left - pr.width - c.offset]
       [] c.placement = "right" -> [top |-> centredTop, left |-> tr.right + c.offset]

C10_FirstMatchFlip ==
  (calc # NoCalc /\ ~calc.noFlip) =>
    LET b == BaseOf(calc)
        offLeft == b.left < 0
        offRight == b.left + calc.popupRect.width > ViewportWidth
        offTop == b.top < 0
        offBottom == b.top + calc.popupRect.height > ViewportHeight
        got == calc.result.placement
    IN /\ offLeft => got = "right"
       /\ (~offLeft /\ offRight) => got = "left"
       /\ (~offLeft /\ ~offRight /\ offTop) => got = "bottom"
       /\ (~offLeft /\ ~offRight /\ ~offTop /\ offBottom) => got = "top"
       /\ (~offLeft /\ ~offRight /\ ~offTop /\ ~offBottom) => got = calc.placement

\* a top placement whose base position is off both the left and the top
\* edge, resolved to the right
C10_Witness ==
  /\ calc # NoCalc
  /\ ~calc.noFlip
  /\ calc.placement = "top"
  /\ BaseOf(calc).left < 0
  /\ BaseOf(calc).top < 0
  /\ calc.result.placement = "right"

\* C11: the position returned for the resolved placement is that placement's
\* base position: top = trigger.top - overlay.height - offset or
\* trigger.bottom + offset with the overlay centred horizontally on the
\* trigger, left = trigger.left - overlay.width - offset or trigger.right +
\* offset with the overlay centred vertically; with flip disabled the
\* resolved placement is the requested one.
C11_BasePosition ==
  calc # NoCalc =>
    /\ calc.result.position = BaseOf([calc EXCEPT !.placement = calc.result.placement])
    /\ calc.noFlip => calc.result.placement = calc.placement

\* a left placement with the default offset and the fallback size, flip
\* disabled, placed past the left edge of the viewport
C11_Witness ==
  /\ calc # NoCalc
  /\ calc.noFlip
  /\ calc.placement = "left"
  /\ calc.offset = DefaultOffset
  /\ calc.popupRect = FallbackSize
  /\ calc.triggerRect.left = 10
  /\ calc.result.position.left = 10 - FallbackWidth - DefaultOffset
  /\ calc.result.position.top = calc.triggerRect.top - 5

\* the overlay rectangle at position pos lies inside the viewport
InsideViewport(pos, popupRect) ==
  /\ pos.left >= 0
  /\ pos.left + popupRect.width <= ViewportWidth
  /\ pos.top >= 0
  /\ pos.top + popupRect.height <= ViewportHeight

\* C12: when the base position of the requested placement does not overflow
\* the viewport, the calculation returns the requested placement at its base
\* position, and the overlay rectangle lies inside the viewport.
C12_NoOverflowNoFlip ==
  (calc # NoCalc /\ InsideViewport(BaseOf(calc), calc.popupRect)) =>
    /\ calc.result.placement = calc.placement
    /\ calc.result.position = BaseOf(calc)
    /\ InsideViewport(calc.result.position, calc.popupRect)

\* a bottom placement ten pixels from the left edge, flip allowed, kept
C12_Witness ==
  /\ calc # NoCalc
  /\ ~calc.noFlip
  /\ calc.placement = "bottom"
  /\ calc.triggerRect.left = 10
  /\ calc.popupRect.width = 100
  /\ InsideViewport(BaseOf(calc), calc.popupRect)
  /\ calc.result.placement = "bottom"
  /\ calc.result.position.left = 10

\* the gap the entry of open timer t asks for
EntryOffset(t) ==
  LET spec == Lookup(config, t.placement, t.type)
  IN IF spec.offset # Undefined THEN spec.offset ELSE DefaultOffset

\* C13: the position an open intent resolves to keeps the gap of the entry
\* being opened: the entry's own offset when it defines one, defaultOffset
\* otherwise.
C13_EntryOffsetUsed ==
  [][\A t \in timers' \ timers :
       t.kind = "open" =>
         t.position =
           Positions(triggerRect,
                     IF Mounted(isOpen, activePopup) THEN popupSize ELSE FallbackSize,
                     EntryOffset(t))[t.finalPlacement]]_vars

\* the close that handleClose issues for the active popup: the intent is
\* recorded, and where the active pair has a spec its close timer is the
\* one pending timer
CloseIssued ==
  /\ intent'.kind = "close"
  /\ intent'.placement = activePopup.placement
  /\ intent'.type = activePopup.type
  /\ Lookup(config, activePopup.placement, activePopup.type).def =>
       \E t \in timers' : t.kind = "close" /\ t.id = timeoutRef'
  /\ UNCHANGED <<isOpen, activePopup>>

\* no close is issued and state and pending timer stay as they are
NothingIssued == UNCHANGED <<isOpen, activePopup, timers, timeoutRef, intent>>

\* C14: pointer-leave on the trigger issues a close when a hover overlay is
\* active and the active spec's enterable is falsy; with enterable truthy,
\* and when no hover overlay is active, it schedules nothing and leaves the
\* state as it is.
C14_TriggerLeave ==
  [][ev'.op = "TriggerMouseLeave" =>
       IF /\ activePopup.type = "hover"
          /\ ~Lookup(config, activePopup.placement, "hover").enterable
         THEN CloseIssued
         ELSE NothingIssued]_vars

\* the pointer has left the trigger of an open enterable hover overlay and
\* nothing is scheduled
C14_Witness ==
  /\ ev.op = "TriggerMouseLeave"
  /\ isOpen
  /\ activePopup.type = "hover"
  /\ Lookup(config, activePopup.placement, "hover").enterable
  /\ timers = {}
  /\ pointer = "away"

\* the active popup is a hover overlay whose spec is enterable
EnterableActive ==
  /\ activePopup.type = "hover"
  /\ Lookup(config, activePopup.placement, activePopup.type).enterable

\* C15: on an enterable hover overlay pointer-enter leaves no close timer
\* pending, keeps the overlay open and invokes the spec's onMouseEnter once;
\* pointer-leave issues a close and invokes the spec's onMouseLeave once.
\* On any other overlay both cancel nothing, close nothing and invoke
\* nothing.
C15_OverlayEnterLeave ==
  [][/\ ev'.op = "PopupMouseEnter" =>
          IF EnterableActive
            THEN /\ {t \in timers' : t.kind = "close"} = {}
                 /\ calls' = <<Call("onMouseEnter", activePopup.placement, "hover")>>
                 /\ UNCHANGED <<isOpen, activePopup>>
            ELSE calls' = <<>> /\ NothingIssued
     /\ ev'.op = "PopupMouseLeave" =>
          IF EnterableActive
            THEN /\ CloseIssued
                 /\ calls' = <<Call("onMouseLeave", activePopup.placement, "hover")>>
            ELSE calls' = <<>> /\ NothingIssued]_vars

\* the pointer has re-entered an enterable hover overlay whose close was
\* pending: the close timer was cancelled and the overlay is still open
C15_Witness ==
  /\ ev.op = "PopupMouseEnter"
  /\ isOpen
  /\ EnterableActive
  /\ intent.kind = "keep"
  /\ intent.over.kind = "close"
  /\ timers = {}
  /\ calls = <<Call("onMouseEnter", activePopup.placement, "hover")>>

\* C16: a document pointer-down issues a close exactly when a click overlay
\* is active and the target is outside both the overlay and the trigger;
\* every other pointer-down leaves state and pending timer unchanged.
C16_OutsidePointerDown ==
  [][ev'.op = "DocMouseDown" =>
       IF /\ activePopup.type = "click"
          /\ Mounted(isOpen, activePopup)
          /\ ev'.type = "outside"
         THEN CloseIssued
         ELSE NothingIssued]_vars

\* an outside pointer-down on an open click overlay has armed its close
C16_Witness ==
  /\ ev.op = "DocMouseDown"
  /\ ev.type = "outside"
  /\ isOpen
  /\ activePopup.type = "click"
  /\ intent.kind = "close"
  /\ \E t \in timers : t.kind = "close" /\ t.type = "click" /\ t.id = timeoutRef

\* event.preventDefault() was called by the step
Prevented == CallsOf(calls', "preventDefault") # <<>>

\* C17: Escape while an overlay is open issues a close and moves the focus
\* to the trigger, and when that close resolves next the overlay is Closed
\* with the focus on the trigger; Escape while Closed changes neither state,
\* timer nor focus.
C17_EscapeClosesAndFocusesTrigger ==
  [][/\ ev'.op = "KeyEscape" =>
          IF isOpen THEN CloseIssued /\ focus' = "trigger"
          ELSE NothingIssued /\ focus' = focus
     /\ (ev.op = "KeyEscape" /\ ev'.op = "TimerFires" /\ isOpen /\ ~isOpen') =>
          /\ activePopup' = NullPopup
          /\ focus' = "trigger"]_vars

\* the close that Escape issued on a click overlay has resolved: the overlay
\* is Closed and the focus, which the opening had put on the overlay, is on
\* the trigger
C17_Witness ==
  /\ ev.op = "TimerFires"
  /\ ev.type = "close"
  /\ calls = <<Call("onCloseCallback", ev.placement, "click")>>
  /\ ~isOpen
  /\ focus = "trigger"

\* C18: in an open click overlay Tab on the last focusable element moves
\* the focus to the first and Shift+Tab on the first moves it to the last,
\* the default prevented; in every other case the handler prevents nothing
\* and the focus goes where the browser's traversal takes it.
C18_TabTrap ==
  [][ev'.op = "KeyTab" =>
       LET trap == isOpen /\ activePopup.type = "click" /\ Mounted(isOpen, activePopup)
           shift == ev'.type = "shift"
       IN IF trap /\ ~shift /\ focus = "last" THEN Prevented /\ focus' = "first"
          ELSE IF trap /\ shift /\ focus = "first" THEN Prevented /\ focus' = "last"
          ELSE /\ ~Prevented
               /\ focus' = BrowserTab(focus, shift, isOpen, activePopup)]_vars

\* Tab on the last focusable element of an open click overlay has wrapped
\* the focus to the first
C18_Witness ==
  /\ ev.op = "KeyTab"
  /\ ev.type = "plain"
  /\ isOpen
  /\ activePopup.type = "click"
  /\ focus = "first"
  /\ calls = <<Call("preventDefault", "none", "none")>>

\* C19: the step that opens a click overlay puts the focus on the overlay
\* container; the step that opens a hover overlay moves the focus to no
\* element: it stays, or falls to the body with content that was removed.
C19_FocusOnOpen ==
  [][(ev'.op = "TimerFires" /\ ev'.type = "open") =>
       IF activePopup'.type = "click" THEN focus' = "popup"
       ELSE \/ focus' = focus
            \/ focus \in {"first", "last"} /\ focus' = "body"]_vars

\* a click overlay with focusable content has just opened from Closed with
\* the focus on the trigger, and the container holds the focus
C19_Witness ==
  /\ ev.op = "TimerFires"
  /\ ev.type = "open"
  /\ isOpen
  /\ activePopup.type = "click"
  /\ Focusables(activePopup) # <<>>
  /\ focus = "popup"

\* C20: pointer-enter on the trigger issues one open intent, for the first
\* placement in configuration order that has a hover spec, and schedules
\* nothing when there is none; the hover spec of a later placement never
\* becomes the active overlay.
C20_FirstHoverEntryOnly ==
  [][/\ ev'.op = "TriggerMouseEnter" =>
          IF FirstHover(config) = "none" THEN NothingIssued
          ELSE /\ intent'.kind = "open"
               /\ intent'.placement = FirstHover(config)
               /\ intent'.type = "hover"
               /\ \A t \in timers' : /\ t.kind = "open"
                                      /\ t.placement = FirstHover(config)
                                      /\ t.type = "hover"
               /\ Cardinality(timers') = 1
     /\ (/\ isOpen'
         /\ activePopup'.type = "hover"
         /\ Lookup(config, activePopup'.placement, "hover").def) =>
          activePopup'.placement = FirstHover(config)]_vars

\* C30: one call flips at most once: the returned placement is the one the
\* boundary tests select on the base position of the requested placement,
\* the returned position is the base position of that placement, and it is
\* returned even when it overflows the viewport itself.
C30_AtMostOneFlip ==
  calc # NoCalc =>
    LET once == IF calc.noFlip THEN calc.placement
                ELSE FlipPlacement(BaseOf(calc), calc.popupRect, calc.placement,
                                   ViewportWidth, ViewportHeight)
    IN /\ calc.result.placement = once
       /\ calc.result.position = BaseOf([calc EXCEPT !.placement = once])
       /\ calc.result.placement # calc.placement =>
            ~InsideViewport(BaseOf(calc), calc.popupRect)

\* a top placement off the left edge flipped to the right, where the overlay
\* overflows the top edge and is returned there
C30_Witness ==
  /\ calc # NoCalc
  /\ ~calc.noFlip
  /\ calc.placement = "top"
  /\ calc.result.placement = "right"
  /\ calc.result.position.top < 0
  /\ ~InsideViewport(calc.result.position, calc.popupRect)

\* the last placement in configuration order that has a click spec
LastClick(cfg) ==
  LET found == {i \in 1..Len(cfg.order) : cfg.cells[cfg.order[i]].click.def}
  IN IF found = {} THEN "none"
     ELSE cfg.order[CHOOSE i \in found : \A j \in found : i >= j]

\* a click on the trigger leaves the open of the last click entry as the one
\* pending timer, and nothing changed when no click entry is configured
ClickFanOut ==
  ev'.op = "TriggerClick" =>
    IF LastClick(config) = "none" THEN NothingIssued
    ELSE /\ intent'.kind = "open"
         /\ intent'.placement = LastClick(config)
         /\ intent'.type = "click"
         /\ Cardinality(timers') = 1
         /\ \A t \in timers' : /\ t.kind = "open"
                                /\ t.placement = LastClick(config)
                                /\ t.type = "click"
                                /\ t.id = timeoutRef'

\* C21: a click on the trigger opens every click entry in configuration
\* order, each open cancelling the one before, so that only the last click
\* placement's timer stays armed; the click overlay that opens is that of
\* the last click placement and the one onOpenCallback invoked is its own.
C21_ClickFanOutLastWins ==
  [][/\ ClickFanOut
     /\ (ev'.op = "TimerFires" /\ ev'.type = "open" /\ activePopup'.type = "click") =>
          calls' = <<Call("onOpenCallback", LastClick(config), "click")>>
     /\ (/\ isOpen'
         /\ activePopup'.type = "click"
         /\ Lookup(config, activePopup'.placement, "click").def) =>
          activePopup'.placement = LastClick(config)]_vars

\* C22: visibility changes only in the step of a timer callback: no step
\* that processes an event or an intent opens or closes the overlay, an open
\* timer that fires leaves it Open and a close timer leaves it Closed.
C22_NoSynchronousVisibilityChange ==
  [][/\ ev'.op \notin {"TimerFires", "Unmount"} =>
          /\ isOpen' = isOpen
          /\ (activePopup' = NullPopup) = (activePopup = NullPopup)
     /\ (ev'.op = "TimerFires" /\ ev'.type = "open") => isOpen' /\ activePopup' # NullPopup
     /\ (ev'.op = "TimerFires" /\ ev'.type = "close") => ~isOpen' /\ activePopup' = NullPopup]_vars

\* the pointer has entered the trigger of a hover entry with open delay 0:
\* the overlay is still Closed and its open timer is pending
C22_Witness ==
  /\ ev.op = "TriggerMouseEnter"
  /\ ~isOpen
  /\ activePopup = NullPopup
  /\ \E t \in timers : t.kind = "open" /\ t.type = "hover" /\ t.delay = 0

\* C23: a click timer is armed with delay 0 whatever delay fields its spec
\* carries; a hover open timer with the spec's openDelay and a hover close
\* timer with the spec's closeDelay, 0 when the field is absent.
C23_Delays ==
  [][\A t \in timers' \ timers :
       LET spec == Lookup(config, t.placement, t.type)
           field == IF t.kind = "open" THEN spec.openDelay ELSE spec.closeDelay
       IN t.delay = IF t.type = "click" THEN 0
                    ELSE IF field = Undefined THEN 0 ELSE field]_vars

\* the close of a click overlay whose spec carries closeDelay 300 is armed
\* with delay 0
C23_Witness ==
  \E t \in timers :
    /\ t.kind = "close"
    /\ t.type = "click"
    /\ Lookup(config, t.placement, "click").closeDelay = 300
    /\ t.delay = 0

(***************************************************************************)
(* The resize listener with an overlay taller than the 200x40 size that    *)
(* calculatePosition assumes before the overlay is mounted (490-492): near *)
(* the top edge handleOpen keeps the configured side and the mounted       *)
(* recomputation flips it.  A scroll or resize need not move the trigger.  *)
(***************************************************************************)
ResizeRects == {Rect(50, 400, 100, 30), Rect(400, 400, 100, 30), Rect(730, 400, 100, 30)}

\* the second size fits neither above nor below a trigger in mid-viewport
ResizeSizes == {[width |-> 100, height |-> 60], [width |-> 100, height |-> 500]}
ResizeConfigs == {basicHoverConfig, twoHoverConfig}

InitResize ==
  /\ config \in ResizeConfigs
  /\ disableFlip = FALSE
  /\ triggerRect \in ResizeRects
  /\ popupSize \in ResizeSizes
  /\ isOpen = FALSE
  /\ activePopup = NullPopup
  /\ timers = {}
  /\ timeoutRef = 0
  /\ placementRef = "none"
  /\ positionRef = NoPos
  /\ stylePos = NoPos
  /\ rafs = <<>>
  /\ pointer = "away"
  /\ focus = "body"
  /\ calls = <<>>
  /\ ev = [op |-> "init", placement |-> "none", type |-> "none"]
  /\ intent = NoIntent
  /\ openedFor = NoPair
  /\ calc = NoCalc
  /\ listeners = AllListeners
  /\ unmounted = FALSE
  /\ rafStale = FALSE
  /\ ThemeIdle

ScrollOrResizeInPlace == \E rect \in ResizeRects : ResizeListener(rect)

NextResize ==
  \/ TriggerMouseEnter
  \/ TriggerMouseLeave
  \/ TimerFires
  \/ Frame
  \/ ScrollOrResizeInPlace

SpecResize == InitResize /\ [][NextResize]_vars

\* the same steps where the browser does run pending timers and frames
SpecCycle ==
  InitResize /\ [][NextResize]_vars /\ WF_vars(TimerFires) /\ WF_vars(Frame)

(***************************************************************************)
(* C25: on a resize or scroll while the overlay is open the geometry is    *)
(* recomputed for the active placement and the position is applied at      *)
(* once; when flipping is allowed and the recomputed placement differs     *)
(* from the active one, a deferred commit of that placement is pending     *)
(* after the listener has run, and the frame callback makes it the active  *)
(* placement.  A resize or scroll while closed changes nothing.            *)
(***************************************************************************)
FlipAllowed ==
  /\ ~disableFlip
  /\ ~Lookup(config, activePopup.placement, activePopup.type).disableFlip

Recomputed == calculatePosition(activePopup.placement, triggerRect', TRUE)

C25_PositionApplied ==
  (ev'.op = "ScrollOrResize" /\ Mounted(isOpen, activePopup)) =>
     /\ positionRef' = Recomputed.position
     /\ stylePos' = Recomputed.position

C25_CommitScheduled ==
  (/\ ev'.op = "ScrollOrResize"
   /\ Mounted(isOpen, activePopup)
   /\ FlipAllowed
   /\ Recomputed.placement # activePopup.placement) =>
     /\ rafs' # <<>>
     /\ rafs'[Len(rafs')] = Recomputed.placement

C25_CommitApplied ==
  (ev'.op = "Frame" /\ activePopup # NullPopup) =>
     activePopup'.placement = rafs[Len(rafs)]

C25_ClosedUnchanged ==
  (ev'.op = "ScrollOrResize" /\ ~isOpen) =>
     UNCHANGED <<isOpen, activePopup, timers, timeoutRef, rafs, placementRef,
                 positionRef, stylePos, focus, intent>>

C25_ResizeRecompute ==
  [][/\ C25_PositionApplied
     /\ C25_CommitScheduled
     /\ C25_CommitApplied
     /\ C25_ClosedUnchanged]_vars

(***************************************************************************)
(* Hover-only use of the instance, with the browser running the pending    *)
(* timers and frame callbacks; the user is free to stop moving the pointer.*)
(***************************************************************************)
HoverConfigs == {basicHoverConfig, enterableConfig, noFlipHoverConfig}

InitHover == Init /\ config \in HoverConfigs

NextHover ==
  \/ TriggerMouseEnter
  \/ TriggerMouseLeave
  \/ PopupMouseEnter
  \/ PopupMouseLeave
  \/ TimerFires
  \/ Frame

SpecHover ==
  InitHover /\ [][NextHover]_vars /\ WF_vars(TimerFires) /\ WF_vars(Frame)

(***************************************************************************)
(* The ThemeProvider on its own: every default theme, stored item and      *)
(* storage failure, next to a tooltip that is left alone.                  *)
(***************************************************************************)
InitTheme ==
  /\ config = basicHoverConfig
  /\ disableFlip = FALSE
  /\ triggerRect = Rect(10, 400, 100, 30)
  /\ popupSize \in PopupSizes
  /\ isOpen = FALSE
  /\ activePopup = NullPopup
  /\ timers = {}
  /\ timeoutRef = 0
  /\ placementRef = "none"
  /\ positionRef = NoPos
  /\ stylePos = NoPos
  /\ rafs = <<>>
  /\ pointer = "away"
  /\ focus = "body"
  /\ calls = <<>>
  /\ ev = [op |-> "init", placement |-> "none", type |-> "none"]
  /\ intent = NoIntent
  /\ openedFor = NoPair
  /\ calc = NoCalc
  /\ listeners = AllListeners
  /\ unmounted = FALSE
  /\ rafStale = FALSE
  /\ defaultTheme \in Theme
  /\ stored \in StoredValues
  /\ hasWindow \in BOOLEAN
  /\ getItemThrows \in BOOLEAN
  /\ setItemThrows \in BOOLEAN
  /\ theme = InitialTheme(defaultTheme, stored, hasWindow, getItemThrows)
  /\ warned = InitialWarning(hasWindow, getItemThrows)
  /\ escaped = FALSE
  /\ themeEv = [op |-> "init", theme |-> "none"]

NextTheme == \E newTheme \in Theme : setTheme(newTheme)

SpecTheme == InitTheme /\ [][NextTheme]_vars

(***************************************************************************)
(* C24: on a resize or scroll while the overlay is open, when the active   *)
(* spec disables flipping (whatever the global flag says) or the global    *)
(* flag disables it, the listener leaves the active placement alone and    *)
(* schedules no deferred commit, whatever placement the recomputation      *)
(* yields; with the global flag set no commit is ever pending.             *)
(***************************************************************************)
NoFlipActive ==
  /\ Mounted(isOpen, activePopup)
  /\ (disableFlip \/ Lookup(config, activePopup.placement, activePopup.type).disableFlip)

C24_NoFlipOnResize ==
  [][/\ (ev'.op = "ScrollOrResize" /\ NoFlipActive) =>
          UNCHANGED <<activePopup, rafs, placementRef>>
     /\ disableFlip => rafs' = <<>>]_vars

\* a scroll has just moved the trigger to where the recomputation flips,
\* the active spec alone forbids it, and nothing was scheduled
C24_Witness ==
  /\ ev.op = "ScrollOrResize"
  /\ NoFlipActive
  /\ ~disableFlip
  /\ calculatePosition(activePopup.placement, triggerRect, TRUE).placement
       # activePopup.placement
  /\ rafs = <<>>

(***************************************************************************)
(* C26: once the instance is unmounted none of its timers is pending and   *)
(* none of its document or window listeners is registered, and from then   *)
(* on no timer fires, no callback is invoked and the instance's state does *)
(* not change.                                                             *)
(***************************************************************************)
C26_Teardown ==
  [][/\ unmounted' => (timers' = {} /\ listeners' = {})
     /\ unmounted =>
          /\ ev'.op # "TimerFires"
          /\ calls' = <<>>
          /\ UNCHANGED <<unmounted, isOpen, activePopup, timers, timeoutRef,
                         placementRef, positionRef, stylePos, focus, listeners>>]_vars

\* the unmount has just cancelled a pending timer while a frame callback is
\* still queued
C26_Witness ==
  /\ unmounted
  /\ ev.op = "Unmount"
  /\ ev.type = "pending"
  /\ rafs # <<>>

(***************************************************************************)
(* C27: while the instance is mounted the trigger carries aria-haspopup    *)
(* true, aria-expanded equal to whether the overlay is rendered, and       *)
(* aria-describedby equal to the overlay's id when the overlay is rendered *)
(* and absent otherwise.                                                   *)
(***************************************************************************)
C27_TriggerAria ==
  ~unmounted =>
    LET a == triggerProps(isOpen)
        o == overlayProps(isOpen, activePopup)
    IN /\ a.ariaHaspopup = TRUE
       /\ a.ariaExpanded = o.rendered
       /\ o.rendered => a.ariaDescribedby = o.id
       /\ ~o.rendered => a.ariaDescribedby = "absent"

\* an overlay that was open has been closed again
C27_Witness ==
  /\ ~unmounted
  /\ ev.op = "TimerFires"
  /\ ev.type = "close"
  /\ ~overlayProps(isOpen, activePopup).rendered
  /\ triggerProps(isOpen).ariaDescribedby = "absent"

(***************************************************************************)
(* C28: a rendered overlay has role tooltip, aria-live polite for hover    *)
(* and assertive for click, aria-modal true only for click, tabindex 0 for *)
(* click and -1 for hover, and data-placement equal to the active          *)
(* placement, which is the side handleOpen or the resize listener resolved *)
(* and not necessarily the configured one.                                 *)
(***************************************************************************)
C28_OverlayAttributes ==
  LET o == overlayProps(isOpen, activePopup) IN
  o.rendered =>
    /\ o.role = "tooltip"
    /\ activePopup.type = "hover" =>
         (o.ariaLive = "polite" /\ o.ariaModal # TRUE /\ o.tabIndex = -1)
    /\ activePopup.type = "click" =>
         (o.ariaLive = "assertive" /\ o.ariaModal = TRUE /\ o.tabIndex = 0)
    /\ o.dataPlacement = activePopup.placement
    /\ (ev.op = "TimerFires" /\ ev.type = "open") =>
         o.dataPlacement \in
           {calculatePosition(openedFor.placement, r, m).placement :
              r \in TriggerRects, m \in BOOLEAN}

\* a TOP hover entry near the top edge with flipping enabled renders
\* data-placement "bottom"
C28_Witness ==
  /\ config = basicHoverConfig
  /\ ~disableFlip
  /\ triggerRect = Rect(10, 400, 100, 30)
  /\ openedFor.placement = "top"
  /\ overlayProps(isOpen, activePopup).rendered
  /\ overlayProps(isOpen, activePopup).ariaLive = "polite"
  /\ overlayProps(isOpen, activePopup).dataPlacement = "bottom"

(***************************************************************************)
(* C29: content is rendered, and function content invoked, only while the  *)
(* overlay is open; function content is handed handleClose as closePopup,  *)
(* and calling it while the overlay is open does what handleClose does for *)
(* the active popup: it issues the close through the timer, changing       *)
(* neither isOpen nor activePopup itself.                                  *)
(***************************************************************************)
C29_LazyContent ==
  LET c == overlayContent(isOpen, activePopup) IN
  ~unmounted =>
    /\ (c.rendered \/ c.invoked) => isOpen
    /\ c.invoked => c.closePopup = "handleClose"

C29_ClosePopupCloses ==
  ev'.op = "ClosePopup" =>
    /\ overlayContent(isOpen, activePopup).invoked
    /\ timers' = handleClose(Sched, activePopup).timers
    /\ timeoutRef' = handleClose(Sched, activePopup).ref
    /\ CloseIssued

C29_ContentAndClose ==
  [][C29_LazyContent /\ C29_LazyContent' /\ C29_ClosePopupCloses]_vars

\* the function content of an open click overlay has just called closePopup
C29_Witness ==
  /\ ev.op = "ClosePopup"
  /\ isOpen
  /\ activePopup.type = "click"
  /\ overlayContent(isOpen, activePopup).invoked
  /\ \E t \in timers : t.kind = "close" /\ t.id = timeoutRef

(***************************************************************************)
(* C31: a position computed while the overlay is not mounted, as by an     *)
(* open intent from Closed, uses the 200x40 fallback size and yields a     *)
(* placement and a position; once the overlay is mounted the measured size *)
(* is used, for an open intent as for the resize listener.                 *)
(***************************************************************************)
SizeUsed == IF Mounted(isOpen, activePopup) THEN popupSize ELSE FallbackSize

Computed(placement, rect, size) ==
  ComputePosition(rect, size, placement, DefaultOffset, ViewportWidth, ViewportHeight,
                  disableFlip \/ Lookup(config, placement, "hover").disableFlip)

C31_FallbackSize ==
  [][/\ \A t \in timers' \ timers :
          t.kind = "open" =>
            /\ t.finalPlacement = Computed(t.placement, triggerRect, SizeUsed).placement
            /\ t.position = Computed(t.placement, triggerRect, SizeUsed).position
            /\ t.finalPlacement \in PopupPlacement
            /\ t.position # NoPos
     /\ (ev'.op = "ScrollOrResize" /\ Mounted(isOpen, activePopup)) =>
          positionRef' = Computed(activePopup.placement, triggerRect', popupSize).position]_vars

\* the overlay has just opened on the side computed with the fallback size,
\* and the recomputation with its measured size resolved the other side
C31_Witness ==
  /\ ev.op = "TimerFires"
  /\ ev.type = "open"
  /\ popupSize # FallbackSize
  /\ activePopup.placement = "top"
  /\ activePopup.position =
       Computed("top", triggerRect, FallbackSize).position
  /\ placementRef = "bottom"
  /\ rafs = <<"bottom">>

(***************************************************************************)
(* C32: in every state with the overlay open the active (placement, mode)  *)
(* pair names an entry defined in the configuration, the entry that was    *)
(* opened, so the lookups for content, close delay, enterable and          *)
(* callbacks find that entry.                                              *)
(***************************************************************************)
C32_ActiveSpecDefined ==
  (isOpen /\ ~unmounted) =>
    /\ Lookup(config, activePopup.placement, activePopup.type).def
    /\ activePopup.placement = openedFor.placement
    /\ activePopup.type = openedFor.type

(***************************************************************************)
(* C33: a pending timer leaves the pending set only by firing, by an       *)
(* open or close intent of a handler, by pointer-enter on the overlay, or  *)
(* by unmount; a deferred placement commit leaves it pending.              *)
(***************************************************************************)
CancellingOps ==
  {"TriggerMouseEnter", "TriggerMouseLeave", "TriggerClick", "PopupMouseEnter",
   "PopupMouseLeave", "ClosePopup", "DocMouseDown", "KeyEscape", "Unmount"}

C33_TimerCancelledOnlyByIntent ==
  [][timers \ timers' # {} =>
       \/ ev'.op \in CancellingOps
       \/ /\ ev'.op = "TimerFires"
          /\ \A t \in timers \ timers' : t.kind = ev'.type /\ t.placement = ev'.placement]_vars

(***************************************************************************)
(* C34: once input events have ceased, so that only frame callbacks run,   *)
(* the recompute/commit cycle of the resize effect comes to rest: from     *)
(* some point on the active popup no longer changes.                       *)
(***************************************************************************)
C34_CommitCycleTerminates ==
  <>[](ev.op = "Frame") => <>[][activePopup' = activePopup]_vars

(***************************************************************************)
(* C35: a frame callback requested for an overlay that has since been      *)
(* closed, or replaced by the overlay of another (placement, mode) pair,   *)
(* leaves the active popup as it is: it neither changes the placement of   *)
(* the overlay now active nor re-opens a closed one.                       *)
(***************************************************************************)
C35_StaleCommitIgnored ==
  [][(ev'.op = "Frame" /\ rafStale) => UNCHANGED <<isOpen, activePopup>>]_vars

(***************************************************************************)
(* C36: when the open timer of a pair B fires while the overlay of a       *)
(* different pair A is open, A's onCloseCallback is invoked before B's     *)
(* onOpenCallback.                                                         *)
(***************************************************************************)
C36_CallbacksPaired ==
  [][(/\ ev'.op = "TimerFires"
      /\ ev'.type = "open"
      /\ isOpen
      /\ openedFor' # openedFor) =>
        /\ Len(calls') = 2
        /\ calls'[1] = Call("onCloseCallback", openedFor.placement, openedFor.type)
        /\ calls'[2] = Call("onOpenCallback", openedFor'.placement, openedFor'.type)]_vars

(***************************************************************************)
(* C37: a hover overlay that is open while the pointer is over neither the *)
(* trigger nor the overlay eventually closes, unless the pointer comes     *)
(* back.                                                                   *)
(***************************************************************************)
HoverOpenUnattended ==
  isOpen /\ activePopup.type = "hover" /\ pointer = "away"

C37_HoverEventuallyCloses ==
  HoverOpenUnattended ~> (~isOpen \/ pointer # "away")

(***************************************************************************)
(* C38: the geometry of opening a click entry does not depend on the       *)
(* disableFlip of the hover spec at the same placement: the placement and  *)
(* position the open intent resolves to are those it resolves to in the    *)
(* configuration that differs only in that flag.                           *)
(***************************************************************************)
WithHoverDisableFlip(cfg, p, b) ==
  [cfg EXCEPT !.cells[p].hover.disableFlip = b]

C38_HoverFlagIrrelevantToClick ==
  [][\A t \in timers' \ timers :
       (t.kind = "open" /\ t.type = "click" /\ Lookup(config, t.placement, "hover").def) =>
         \A b \in BOOLEAN :
           LET other == calculatePositionIn(WithHoverDisableFlip(config, t.placement, b),
                                            t.placement, triggerRect,
                                            Mounted(isOpen, activePopup))
           IN /\ t.finalPlacement = other.placement
              /\ t.position = other.position]_vars

(***************************************************************************)
(* C39: in every reachable state the open flag is set exactly when an      *)
(* active popup record exists; timer callbacks set or clear both in one    *)
(* update and a frame callback never creates a record.                     *)
(***************************************************************************)
C39_OpenIffActive ==
  isOpen <=> activePopup # NullPopup

\* a frame callback has just run on a closed instance
C39_Witness ==
  /\ ev.op = "Frame"
  /\ ~unmounted
  /\ ~isOpen
  /\ activePopup = NullPopup

(***************************************************************************)
(* C40: the ThemeProvider's initial theme is the stored item when storage  *)
(* can be read and the item is one of dark, light, system, and             *)
(* defaultTheme otherwise; setTheme(t) makes t the theme whether or not    *)
(* writing it to storage throws, and no exception leaves either.           *)
(***************************************************************************)
StorageReadable == hasWindow /\ ~getItemThrows

C40_InitialTheme ==
  themeEv.op = "init" =>
    /\ theme = IF StorageReadable /\ stored \in {"dark", "light", "system"}
                 THEN stored ELSE defaultTheme
    /\ ~escaped

C40_ThemeDegradesGracefully ==
  [][/\ C40_InitialTheme
     /\ themeEv'.op = "setTheme" =>
          /\ theme' = themeEv'.theme
          /\ ~escaped'
          /\ ~SetItemFails => stored' = themeEv'.theme]_vars

\* setTheme has just changed the theme although setItem threw, from an
\* initial theme that fell back to defaultTheme over an invalid stored item
C40_Witness ==
  /\ themeEv.op = "setTheme"
  /\ setItemThrows
  /\ hasWindow
  /\ stored = "blue"
  /\ theme = themeEv.theme
  /\ theme # defaultTheme
  /\ warned = "Failed to save theme to localStorage:"

====
